---------------------------- MODULE Spec2Model ----------------------------
(***************************************************************************)
(* FPGRARS: the RISC-V assembly parser (src/simulator/parser/mod.rs), the  *)
(* execution of a finalized program, and the renderer's read of the shared *)
(* MMIO buffer (src/renderer/mod.rs, src/main.rs).                         *)
(*                                                                         *)
(* Three specifications share this module:                                 *)
(*   Spec       parse_riscv consuming a stream of preprocessed lines       *)
(*   ExecSpec   the engine stepping through a finalized program            *)
(*   RenderSpec the render callback against an engine writing the MMIO     *)
(***************************************************************************)
EXTENDS Integers, Sequences, FiniteSets, TLC

VARIABLES
    input,      \* the lines the iterator `self` has yielded so far
    labels,     \* Trie<String, usize>: label name -> address
    directive,  \* Directive::Text | Directive::Data
    code,       \* Vec<PreLabelInstruction> built by pass 1
    data,       \* Vec<u8> built by pass 1
    ret,        \* what parse_riscv has returned (tag "Running" while in the loop)
    prog,       \* ExecSpec: the code sequence loaded into the simulator
    pc,         \* ExecSpec: program counter, an instruction index
    regs,       \* ExecSpec: integer register file
    halted,     \* ExecSpec: the engine's halted state
    fault,      \* ExecSpec: a fetch past the end of prog happened
    mmio,       \* RenderSpec: the shared Vec<u8> behind the Mutex
    lock,       \* RenderSpec: holder of the Mutex: "free" | "render" | "engine"
    rpc,        \* RenderSpec: position of the render callback
    rframe,     \* RenderSpec: the callback's local `frame`
    rnext,      \* RenderSpec: next pixel the callback copies
    image,      \* RenderSpec: the callback's output image
    ecolor,     \* RenderSpec: colour of the frame the engine is drawing
    enext       \* RenderSpec: next pixel the engine writes

parserVars == <<input, labels, directive, code, data, ret>>
execVars   == <<prog, pc, regs, halted, fault>>
renderVars == <<mmio, lock, rpc, rframe, rnext, image, ecolor, enext>>
vars       == <<input, labels, directive, code, data, ret,
                prog, pc, regs, halted, fault,
                mmio, lock, rpc, rframe, rnext, image, ecolor, enext>>

---------------------------------------------------------------------------
(* Bounds *)

MaxLines == 3          \* lines the iterator yields at most
DataSegmentSize == 2   \* the data_segment_size argument
Width == 2             \* WIDTH, scaled down from 320
Height == 1            \* HEIGHT, scaled down from 240

---------------------------------------------------------------------------
(* Lines.  A preprocessed line is the sequence of its tokens; a label      *)
(* definition `name:` is the token name \o ":".                            *)

LabelNames == {"A", "B"}

LabelToken(l) == l \o ":"

\* the registers the lines above and the epilogue name: x0, x1, x2 and a7
Registers == {0, 1, 2, 17}

\* register_names::regs(): mnemonic register name -> index
RegIndex == [n \in {"x0", "x1", "x2"} |-> CASE n = "x0" -> 0 [] n = "x1" -> 1 [] n = "x2" -> 2]

\* str::to_lowercase on the mnemonics that occur in upper case
ToLowercase(w) ==
    CASE w = "J"   -> "j"
      [] w = "BGT" -> "bgt"
      [] OTHER     -> w

\* str::starts_with on the first token of a line
StartsWith(s, prefix) ==
    /\ s # <<>>
    /\ \/ Head(s) = prefix
       \/ prefix = ".data" /\ Head(s) = ".database"
       \/ prefix = ".text" /\ Head(s) = ".textSOMETHING"

RECURSIVE Join(_)
Join(s) == IF s = <<>> THEN ""
           ELSE IF Len(s) = 1 THEN Head(s)
           ELSE Head(s) \o " " \o Join(Tail(s))

Bodies ==
    { <<>>,
      <<".data">>, <<".text">>, <<".database">>,
      <<"add", "x1", "x1", "x2">>,
      <<"J", "A">>,
      <<"beq", "x1", "x2", "B">>,
      <<"bgt", "x1", "x2", "B">>,
      <<"nop">>,
      <<"add", "x1", "x1">>,
      <<"beq", "x1", "zz", "A">> }

Lines == Bodies \cup { <<LabelToken(l)>> \o b : l \in LabelNames, b \in Bodies }

---------------------------------------------------------------------------
(* Results *)

Ok(v)        == [tag |-> "Ok", val |-> v]
Err(k, a)    == [tag |-> "Err", kind |-> k, arg |-> a]
Panic(m)     == [tag |-> "Panic", msg |-> m]
Running      == [tag |-> "Running"]

---------------------------------------------------------------------------
(* combinators: parse_label, one_arg, args_type_r, args_type_sb, args_jal  *)

parse_label(line) ==
    IF line # <<>> /\ \E l \in LabelNames : Head(line) = LabelToken(l)
    THEN [tag |-> "Ok", rest |-> Tail(line),
          label |-> CHOOSE l \in LabelNames : Head(line) = LabelToken(l)]
    ELSE [tag |-> "Err"]

one_arg(s) ==
    IF s = <<>> THEN Err("Nom", "")
    ELSE Ok([rest |-> Tail(s), arg |-> Head(s)])

\* the first k tokens of s as register indices
RegArgs(s, k) ==
    IF Len(s) < k THEN Err("Nom", Join(s))
    ELSE IF \E i \in 1..k : s[i] \notin DOMAIN RegIndex
    THEN LET bad == CHOOSE i \in 1..k :
                        /\ s[i] \notin DOMAIN RegIndex
                        /\ \A j \in 1..(i-1) : s[j] \in DOMAIN RegIndex
         IN  Err("RegisterNotFound", s[bad])
    ELSE Ok([i \in 1..k |-> RegIndex[s[i]]])

args_type_r(s) == RegArgs(s, 3)

args_type_sb(s) ==
    LET r == RegArgs(s, 2)
    IN  IF r.tag # "Ok" THEN r
        ELSE IF Len(s) < 3 THEN Err("Nom", "")
        ELSE Ok(<<r.val[1], r.val[2], s[3]>>)

args_jal(s) ==
    LET r == RegArgs(s, 1)
    IN  IF r.tag # "Ok" THEN r
        ELSE IF Len(s) < 2 THEN Err("Nom", "")
        ELSE Ok(<<r.val[1], s[2]>>)

---------------------------------------------------------------------------
(* Instruction and PreLabelInstruction *)

InstR(op, rd, rs1, rs2)   == [op |-> op, rd |-> rd, rs1 |-> rs1, rs2 |-> rs2]
InstSB(op, rs1, rs2, pos) == [op |-> op, rs1 |-> rs1, rs2 |-> rs2, addr |-> pos]
InstJal(rd, pos)          == [op |-> "Jal", rd |-> rd, addr |-> pos]
InstLi(rd, imm)           == [op |-> "Li", rd |-> rd, imm |-> imm]
InstEcall                 == [op |-> "Ecall"]

PreSB(op, rs1, rs2, label) == [pre |-> op, rs1 |-> rs1, rs2 |-> rs2, label |-> label]
PreJal(rd, label)          == [pre |-> "Jal", rd |-> rd, label |-> label]
PreOther(i)                == [pre |-> "Other", inst |-> i]

BranchOps == {"Beq", "Bne", "Blt", "Bge", "Bltu", "Bgeu"}

---------------------------------------------------------------------------
(* parse_text *)

type_r(s, op) ==
    LET a == args_type_r(s)
    IN  IF a.tag # "Ok" THEN a
        ELSE Ok(PreOther(InstR(op, a.val[1], a.val[2], a.val[3])))

type_sb(s, op) ==
    LET a == args_type_sb(s)
    IN  IF a.tag # "Ok" THEN a
        ELSE Ok(PreSB(op, a.val[1], a.val[2], a.val[3]))

\* the bug of forgetting to reverse: bgt a b L read as blt a b L
type_sb_not_reversed(s, op) == type_sb(s, op)

type_sb_reversed(s, op) ==
    LET a == args_type_sb(s)
    IN  IF a.tag # "Ok" THEN a
        ELSE Ok(PreSB(op, a.val[2], a.val[1], a.val[3]))

RTypeOp ==
    [m \in {"add", "sub", "sll", "slt", "sltu", "xor", "srl", "sra", "or", "and"} |->
        CASE m = "add" -> "Add"   [] m = "sub" -> "Sub" [] m = "sll" -> "Sll"
          [] m = "slt" -> "Slt"   [] m = "sltu" -> "Sltu" [] m = "xor" -> "Xor"
          [] m = "srl" -> "Srl"   [] m = "sra" -> "Sra" [] m = "or" -> "Or"
          [] m = "and" -> "And"]

parse_text(line) ==
    LET first == one_arg(line)
    IN  IF first.tag # "Ok" THEN first
        ELSE
        LET s == first.val.rest
            m == ToLowercase(first.val.arg)
        IN  CASE m \in DOMAIN RTypeOp -> type_r(s, RTypeOp[m])
              [] m = "beq"  -> type_sb(s, "Beq")
              [] m = "bne"  -> type_sb(s, "Bne")
              [] m = "blt"  -> type_sb(s, "Blt")
              [] m = "bge"  -> type_sb(s, "Bge")
              [] m = "bltu" -> type_sb(s, "Bltu")
              [] m = "bgeu" -> type_sb(s, "Bgeu")
              [] m = "bgt"  -> type_sb_reversed(s, "Blt")
              [] m = "ble"  -> type_sb_reversed(s, "Bge")
              [] m = "bgtu" -> type_sb_reversed(s, "Bltu")
              [] m = "bleu" -> type_sb_reversed(s, "Bgeu")
              [] m = "jal"  -> LET a == args_jal(s)
                               IN  IF a.tag # "Ok" THEN a
                                   ELSE Ok(PreJal(a.val[1], a.val[2]))
              [] m = "j"    -> LET a == one_arg(s)
                               IN  IF a.tag # "Ok" THEN a
                                   ELSE Ok(PreJal(0, a.val.arg))
              [] m = "ecall" -> Ok(PreOther(InstEcall))
              [] OTHER -> Panic("Instruction hasn't been implemented")

---------------------------------------------------------------------------
(* unlabel_instruction and the collect() of pass 2 *)

unlabel_instruction(i, labs) ==
    IF i.pre = "Other" THEN Ok(i.inst)
    ELSE IF i.label \notin DOMAIN labs THEN Err("LabelNotFound", i.label)
    ELSE IF i.pre = "Jal" THEN Ok(InstJal(i.rd, labs[i.label]))
    ELSE Ok(InstSB(i.pre, i.rs1, i.rs2, labs[i.label]))

\* the bug of reporting the last failure instead of the first
CollectLastError(rs) ==
    IF \E i \in 1..Len(rs) : rs[i].tag # "Ok"
    THEN rs[CHOOSE i \in 1..Len(rs) :
                /\ rs[i].tag # "Ok"
                /\ \A j \in (i+1)..Len(rs) : rs[j].tag = "Ok"]
    ELSE Ok([i \in 1..Len(rs) |-> rs[i].val])

\* Iterator<Result<T, E>>::collect::<Result<Vec<T>, E>>(): the first Err, or all
Collect(rs) ==
    IF \E i \in 1..Len(rs) : rs[i].tag # "Ok"
    THEN rs[CHOOSE i \in 1..Len(rs) :
                /\ rs[i].tag # "Ok"
                /\ \A j \in 1..(i-1) : rs[j].tag = "Ok"]
    ELSE Ok([i \in 1..Len(rs) |-> rs[i].val])

---------------------------------------------------------------------------
(* parse_riscv *)

\* the bug of registering the address after the next instruction
LabelPosNext(dir, c, d) == IF dir = "Text" THEN (Len(c) + 1) * 4 ELSE Len(d)

\* the bug of registering an instruction index instead of a byte address
LabelPosIndex(dir, c, d) == IF dir = "Text" THEN Len(c) ELSE Len(d)

LabelPos(dir, c, d) == IF dir = "Text" THEN Len(c) * 4 ELSE Len(d)

\* the bug of keeping the first definition of a label
TrieInsertKeepFirst(t, k, v) ==
    [x \in DOMAIN t \cup {k} |-> IF x \in DOMAIN t THEN t[x] ELSE v]

\* Trie::insert: the new value replaces the one stored under the same key
TrieInsert(t, k, v) ==
    [x \in DOMAIN t \cup {k} |-> IF x = k THEN v ELSE t[x]]

EmptyTrie == [x \in {} |-> 0]

\* the bug of a self-jump that targets the instruction after itself
EpilogueJumpPastSelf(c) ==
    c \o << InstJal(0, (Len(c) + 1) * 4), InstLi(17, 10), InstEcall >>

\* the bug of returning the resolved code without the epilogue
EpilogueMissing(c) == c

\* code.push(Jal(0, code.len() * 4)); code.extend([Li(17, 10), Ecall])
Epilogue(c) ==
    c \o << InstJal(0, Len(c) * 4), InstLi(17, 10), InstEcall >>

\* data.resize(data_segment_size, 0)
Resize(d, n) == [i \in 1..n |-> IF i <= Len(d) THEN d[i] ELSE 0]

Init ==
    /\ input = <<>>
    /\ labels = EmptyTrie
    /\ directive = "Text"
    /\ code = <<>>
    /\ data = <<>>
    /\ ret = Running
    /\ prog = <<>> /\ pc = 0 /\ regs = [r \in Registers |-> 0]
    /\ halted = FALSE /\ fault = FALSE
    /\ mmio = <<>> /\ lock = "free" /\ rpc = "idle" /\ rframe = 0 /\ rnext = 0
    /\ image = <<>> /\ ecolor = 1 /\ enext = 0

\* one iteration of `for line in self`
PassOneLine(line) ==
    LET pl    == parse_label(line)
        rest  == IF pl.tag = "Ok" THEN pl.rest ELSE line
        labs  == IF pl.tag = "Ok"
                 THEN TrieInsert(labels, pl.label, LabelPos(directive, code, data))
                 ELSE labels
    IN  /\ ret.tag = "Running"
        /\ Len(input) < MaxLines
        /\ input' = Append(input, line)
        /\ labels' = labs
        /\ data' = data
        /\ IF rest = <<>>
           THEN UNCHANGED <<directive, code, ret>>
           ELSE IF StartsWith(rest, ".data")
           THEN directive' = "Data" /\ UNCHANGED <<code, ret>>
           ELSE IF StartsWith(rest, ".text")
           THEN directive' = "Text" /\ UNCHANGED <<code, ret>>
           ELSE IF directive = "Text"
           THEN LET r == parse_text(rest)
                IN  /\ directive' = directive
                    /\ IF r.tag = "Ok"
                       THEN code' = Append(code, r.val) /\ ret' = ret
                       ELSE code' = code /\ ret' = r
           ELSE /\ ret' = Panic("No .data implementation yet")
                /\ UNCHANGED <<directive, code>>
        /\ UNCHANGED <<execVars, renderVars>>

\* the iterator is exhausted: pass 2, the epilogue and the return
Finish ==
    LET resolved == Collect([i \in 1..Len(code) |-> unlabel_instruction(code[i], labels)])
    IN  /\ ret.tag = "Running"
        /\ ret' = IF resolved.tag # "Ok" THEN resolved
                  ELSE [tag |-> "Ok",
                        code |-> Epilogue(resolved.val),
                        data |-> Resize(data, DataSegmentSize)]
        /\ UNCHANGED <<input, labels, directive, code, data>>
        /\ UNCHANGED <<execVars, renderVars>>

Next ==
    \/ \E line \in Lines : PassOneLine(line)
    \/ Finish

Spec == Init /\ [][Next]_vars

---------------------------------------------------------------------------
(* The source text read back from the consumed lines: what each line is,   *)
(* where each instruction and each label definition sits.                  *)

Body(line) == IF parse_label(line).tag = "Ok" THEN Tail(line) ELSE line

IsDirectiveLine(line) == StartsWith(Body(line), ".data") \/ StartsWith(Body(line), ".text")

IsInstrLine(line) == Body(line) # <<>> /\ ~IsDirectiveLine(line)

\* number of instruction lines among the first k lines
NumInstr(inp, k) == Cardinality({j \in 1..k : IsInstrLine(inp[j])})

\* the line of the i-th instruction
LineOfInstr(inp, i) ==
    CHOOSE k \in 1..Len(inp) : IsInstrLine(inp[k]) /\ NumInstr(inp, k) = i

RECURSIVE DirectiveBefore(_, _)
DirectiveBefore(inp, k) ==
    IF k = 1 THEN "Text"
    ELSE IF StartsWith(Body(inp[k-1]), ".data") THEN "Data"
    ELSE IF StartsWith(Body(inp[k-1]), ".text") THEN "Text"
    ELSE DirectiveBefore(inp, k-1)

DefLines(inp, l) == {k \in 1..Len(inp) : inp[k] # <<>> /\ Head(inp[k]) = LabelToken(l)}

LastDef(inp, l)  == CHOOSE k \in DefLines(inp, l) : \A j \in DefLines(inp, l) : j <= k
FirstDef(inp, l) == CHOOSE k \in DefLines(inp, l) : \A j \in DefLines(inp, l) : k <= j

\* a line on which pass 1 stops while the directive is text
TextLineFails(inp, k) ==
    /\ IsInstrLine(inp[k])
    /\ DirectiveBefore(inp, k) = "Text"
    /\ parse_text(Body(inp[k])).tag # "Ok"

\* a line on which pass 1 stops
LineFails(inp, k) ==
    /\ IsInstrLine(inp[k])
    /\ \/ DirectiveBefore(inp, k) = "Data"
       \/ parse_text(Body(inp[k])).tag # "Ok"

PassOneSucceeds(inp) == \A k \in 1..Len(inp) : ~LineFails(inp, k)

\* the instructions (by index) that carry a label
Refs == {i \in 1..Len(code) : code[i].pre # "Other"}

UndefinedRefs == {i \in Refs : DefLines(input, code[i].label) = {}}

Returned == ret.tag # "Running"

UserCount == Len(ret.code) - 3

---------------------------------------------------------------------------
\* C1: when parse_riscv succeeds the code has length n + 3, n the number of
\* instruction lines; its first n entries are the parsed instructions in
\* source order and its last three are Jal(0, 4n), Li(17, 10), Ecall.
C1_Finalized ==
    ret.tag = "Ok" =>
        LET n == NumInstr(input, Len(input))
        IN  /\ Len(ret.code) = n + 3
            /\ \A i \in 1..n :
                 ret.code[i] =
                   unlabel_instruction(
                       parse_text(Body(input[LineOfInstr(input, i)])).val, labels).val
            /\ ret.code[n + 1] = InstJal(0, 4 * n)
            /\ ret.code[n + 2] = InstLi(17, 10)
            /\ ret.code[n + 3] = InstEcall

C1_Witness ==
    /\ ret.tag = "Ok"
    /\ NumInstr(input, Len(input)) >= 2
    /\ ret.code[Len(ret.code) - 2].addr = 4 * NumInstr(input, Len(input))

---------------------------------------------------------------------------
\* the references to a label whose last definition is on a later line
ForwardRefs ==
    {i \in Refs : /\ DefLines(input, code[i].label) # {}
                  /\ LastDef(input, code[i].label) > LineOfInstr(input, i)}

\* C3 (as claimed): when a branch or jump references a label defined on a
\* later line the parse succeeds, the reference resolves to 4 times the number
\* of instructions that precede the label definition, and every reference to
\* the same label resolves to the same address.
C3_AsClaimed ==
    (Returned /\ PassOneSucceeds(input) /\ UndefinedRefs = {}) =>
        /\ ret.tag = "Ok"
        /\ \A i \in ForwardRefs :
              /\ ret.code[i].addr =
                   4 * NumInstr(input, LastDef(input, code[i].label) - 1)
              /\ \A j \in Refs : code[j].label = code[i].label =>
                                     ret.code[j].addr = ret.code[i].addr

\* C3 (amended): when a branch or jump references a label defined on a later
\* line the parse succeeds and the reference resolves to the address of the
\* label definition: 4 times the number of instructions that precede it when
\* the label is defined under the text directive, the data length when it is
\* defined under the data directive; every reference to the same label,
\* wherever it is placed, resolves to the same address.
C3_ForwardRef ==
    (Returned /\ PassOneSucceeds(input) /\ UndefinedRefs = {}) =>
        /\ ret.tag = "Ok"
        /\ \A i \in ForwardRefs :
              LET d == LastDef(input, code[i].label)
              IN  /\ ret.code[i].addr =
                       IF DirectiveBefore(input, d) = "Text"
                       THEN 4 * NumInstr(input, d - 1)
                       ELSE Len(data)
                  /\ \A j \in Refs : code[j].label = code[i].label =>
                                         ret.code[j].addr = ret.code[i].addr

C3_Witness ==
    /\ ret.tag = "Ok"
    /\ \E i \in ForwardRefs :
          /\ DirectiveBefore(input, LastDef(input, code[i].label)) = "Text"
          /\ ret.code[i].addr = 8

---------------------------------------------------------------------------
\* C4: when every line parses in pass 1 and some instruction references a
\* label defined nowhere, parse_riscv returns LabelNotFound with the label of
\* the first such instruction, and no Parsed program.
C4_LabelNotFound ==
    (Returned /\ PassOneSucceeds(input) /\ UndefinedRefs # {}) =>
        LET first == CHOOSE i \in UndefinedRefs : \A j \in UndefinedRefs : i <= j
        IN  ret = Err("LabelNotFound", code[first].label)

C4_Witness ==
    /\ Returned
    /\ PassOneSucceeds(input)
    /\ \E i, j \in UndefinedRefs : i < j /\ code[i].label # code[j].label
    /\ ret.tag = "Err"

---------------------------------------------------------------------------
Aliases == [a \in {"bgt", "ble", "bgtu", "bleu"} |->
              CASE a = "bgt" -> "blt" [] a = "ble" -> "bge"
                [] a = "bgtu" -> "bltu" [] a = "bleu" -> "bgeu"]

\* the final Instruction a line yields under the current label table
FinalOf(line) ==
    LET p == parse_text(line)
    IN  IF p.tag = "Ok" THEN unlabel_instruction(p.val, labels) ELSE p

\* the instructions (by index) whose source line uses an alias mnemonic
AliasInstrs ==
    {i \in 1..Len(code) :
        ToLowercase(Head(Body(input[LineOfInstr(input, i)]))) \in DOMAIN Aliases}

\* every alias line parses to what the canonical line with the two registers
\* exchanged parses to, for all registers and labels
AliasParsesAsCanonical ==
    \A al \in DOMAIN Aliases, a \in DOMAIN RegIndex, b \in DOMAIN RegIndex,
       l \in LabelNames :
         parse_text(<<al, a, b, l>>) = parse_text(<<Aliases[al], b, a, l>>)

\* C5: `bgt a b L` yields the same final Instruction as `blt b a L`, and so
\* for ble/bge, bgtu/bltu, bleu/bgeu, with the same resolved address.
C5_AliasNormalized ==
    /\ AliasParsesAsCanonical
    /\ ret.tag = "Ok" =>
          \A i \in AliasInstrs :
              LET s == Body(input[LineOfInstr(input, i)])
              IN  ret.code[i] =
                    FinalOf(<<Aliases[ToLowercase(s[1])], s[3], s[2], s[4]>>).val

C5_Witness ==
    /\ ret.tag = "Ok"
    /\ \E i \in AliasInstrs :
          /\ ret.code[i].op = "Blt"
          /\ ret.code[i].rs1 = 2 /\ ret.code[i].rs2 = 1
          /\ ret.code[i].addr = 4

---------------------------------------------------------------------------
\* C6: in every Parsed program every resolved address of a branch or jump is
\* a multiple of 4 and, divided by 4, is less than the length of the code.
C6_TargetsValid ==
    ret.tag = "Ok" =>
        \A i \in 1..Len(ret.code) :
            ret.code[i].op \in BranchOps \cup {"Jal"} =>
                /\ ret.code[i].addr % 4 = 0
                /\ ret.code[i].addr \div 4 < Len(ret.code)

\* a jump to a label defined after the last user instruction
C6_Witness ==
    /\ ret.tag = "Ok"
    /\ UserCount >= 2
    /\ \E i \in Refs :
          /\ ret.code[i].addr = 4 * UserCount
          /\ DirectiveBefore(input, LastDef(input, code[i].label)) = "Text"

---------------------------------------------------------------------------
\* C7 (as claimed): every parser-stage failure (malformed operands, unknown
\* register, unrecognized mnemonic, unresolved label) makes parse_riscv
\* return an Error value, never a Parsed program.
C7_AsClaimed ==
    (/\ Returned
     /\ \/ \E k \in 1..Len(input) : TextLineFails(input, k)
        \/ PassOneSucceeds(input) /\ UndefinedRefs # {})
    => ret.tag = "Err"

---------------------------------------------------------------------------
\* C8: the directive starts as text; in pass 1 a label is registered with 4
\* times the number of instructions emitted so far under text and with the
\* data length under data; a label sharing its line with an instruction gets
\* that instruction's address and the instruction is still emitted; blank
\* lines and lines starting with .data or .text emit no instruction, the
\* latter changing only the directive.
C8_PassOne ==
    /\ (input = <<>> => directive = "Text")
    /\ [][ (ret.tag = "Running" /\ Len(input') = Len(input) + 1) =>
            LET line == input'[Len(input')]
                pl   == parse_label(line)
            IN  /\ pl.tag = "Ok" =>
                     /\ pl.label \in DOMAIN labels'
                     /\ labels'[pl.label] =
                          IF directive = "Text" THEN 4 * Len(code) ELSE Len(data)
                /\ (pl.tag = "Ok" /\ IsInstrLine(line) /\ ret'.tag = "Running") =>
                     /\ Len(code') = Len(code) + 1
                     /\ code'[Len(code')] = parse_text(pl.rest).val
                     /\ labels'[pl.label] = 4 * (Len(code') - 1)
                /\ Body(line) = <<>> =>
                     UNCHANGED <<code, data, directive, ret>>
                /\ line = <<>> => UNCHANGED labels
                /\ StartsWith(line, ".data") =>
                     directive' = "Data" /\ UNCHANGED <<code, data, labels, ret>>
                /\ StartsWith(line, ".text") =>
                     directive' = "Text" /\ UNCHANGED <<code, data, labels, ret>>
          ]_vars

\* a label sharing its line with the second instruction, after a directive
\* line
C8_Witness ==
    /\ ret.tag = "Running"
    /\ Len(input) = 3
    /\ StartsWith(input[2], ".text")
    /\ parse_label(input[3]).tag = "Ok" /\ IsInstrLine(input[3])
    /\ Len(code) = 2
    /\ labels[parse_label(input[3]).label] = 4

---------------------------------------------------------------------------
\* the address registered by the definition on line k
AddrOfDef(inp, k) ==
    IF DirectiveBefore(inp, k) = "Text" THEN 4 * NumInstr(inp, k - 1) ELSE Len(data)

MultiRefs == {i \in Refs : Cardinality(DefLines(input, code[i].label)) >= 2}

\* C10: when a label is defined on more than one line, every reference to it
\* resolves to the address registered by the last definition, and the parse
\* does not fail because of the duplicate.
C10_LastDefinitionWins ==
    (Returned /\ PassOneSucceeds(input) /\ UndefinedRefs = {}) =>
        /\ ret.tag = "Ok"
        /\ \A i \in MultiRefs :
              ret.code[i].addr = AddrOfDef(input, LastDef(input, code[i].label))

\* two definitions at different addresses, one reference before the first
\* and one after the last
C10_Witness ==
    /\ ret.tag = "Ok"
    /\ \E i, j \in MultiRefs :
          LET l == code[i].label
          IN  /\ code[j].label = l
              /\ LineOfInstr(input, i) < FirstDef(input, l)
              /\ LineOfInstr(input, j) >= LastDef(input, l)
              /\ AddrOfDef(input, FirstDef(input, l)) # AddrOfDef(input, LastDef(input, l))

---------------------------------------------------------------------------
(* The simulator thread of main: load the parsed program, then run it.     *)

\* registers hold 32-bit two's-complement values, -2^31 .. 2^31 - 1
AddI32(a, b) ==
    IF b > 0 /\ a > 2147483647 - b
    THEN (a - 2147483647) + (b - 2147483647) - 2
    ELSE IF b < 0 /\ a < (-2147483647 - 1) - b
    THEN (a + 2147483647 + 1) + (b + 2147483647 + 1)
    ELSE a + b

\* comparison of the same bits read as unsigned
LessUnsigned(a, b) ==
    \/ a >= 0 /\ b < 0
    \/ (a >= 0) = (b >= 0) /\ a < b

\* a register write; register 0 never persists writes
WriteReg(rf, rd, v) == IF rd = 0 THEN rf ELSE [rf EXCEPT ![rd] = v]

BranchTaken(op, a, b) ==
    CASE op = "Beq"  -> a = b
      [] op = "Bne"  -> a # b
      [] op = "Blt"  -> a < b
      [] op = "Bge"  -> a >= b
      [] op = "Bltu" -> LessUnsigned(a, b)
      [] op = "Bgeu" -> ~LessUnsigned(a, b)

\* sim.load_from_file(file).unwrap(): the parsed code becomes the program
Load ==
    /\ ret.tag = "Ok"
    /\ prog = <<>>
    /\ prog' = ret.code
    /\ pc' = 0
    /\ UNCHANGED <<regs, halted, fault>>
    /\ UNCHANGED <<parserVars, renderVars>>

\* sim.run(): fetch the instruction at pc and execute it
Step ==
    /\ prog # <<>>
    /\ ~halted /\ ~fault
    /\ IF pc >= Len(prog)
       THEN fault' = TRUE /\ UNCHANGED <<pc, regs, halted>>
       ELSE LET i == prog[pc + 1]
            IN  /\ fault' = fault
                /\ CASE i.op = "Add" ->
                          /\ regs' = WriteReg(regs, i.rd, AddI32(regs[i.rs1], regs[i.rs2]))
                          /\ pc' = pc + 1
                          /\ halted' = halted
                     [] i.op \in BranchOps ->
                          /\ pc' = IF BranchTaken(i.op, regs[i.rs1], regs[i.rs2])
                                   THEN i.addr \div 4 ELSE pc + 1
                          /\ UNCHANGED <<regs, halted>>
                     [] i.op = "Jal" ->
                          /\ regs' = WriteReg(regs, i.rd, (pc + 1) * 4)
                          /\ pc' = i.addr \div 4
                          /\ halted' = halted
                     [] i.op = "Li" ->
                          /\ regs' = WriteReg(regs, i.rd, i.imm)
                          /\ pc' = pc + 1
                          /\ halted' = halted
                     [] i.op = "Ecall" ->
                          /\ halted' = (regs[17] = 10)
                          /\ pc' = IF regs[17] = 10 THEN pc ELSE pc + 1
                          /\ regs' = regs
    /\ UNCHANGED prog
    /\ UNCHANGED <<parserVars, renderVars>>

ExecNext ==
    \/ \E line \in Lines : PassOneLine(line)
    \/ Finish
    \/ Load
    \/ Step

\* the simulator thread keeps running: a step that is possible is taken
ExecSpec == Init /\ [][ExecNext]_vars /\ WF_vars(Load) /\ WF_vars(Step)

\* control has fallen off the end of the user instructions
FellOffEnd == prog # <<>> /\ ~halted /\ pc = Len(prog) - 3

\* C2 (as claimed): whenever control falls off the end of the user
\* instructions, the engine eventually reaches the halted state through the
\* terminate syscall of the epilogue.
C2_AsClaimed == FellOffEnd ~> halted

---------------------------------------------------------------------------
(* The renderer thread and the MMIO buffer it shares with the engine.      *)

FRAME_SELECT == 2098692
FRAME_0 == 0
FRAME_1 == 1048576

FrameSize == Width * Height

\* the addresses of the shared buffer the two threads touch
MmioAddrs ==
    {FRAME_SELECT} \cup {FRAME_0 + k : k \in 0..(FrameSize - 1)}
                   \cup {FRAME_1 + k : k \in 0..(FrameSize - 1)}

\* the image is 2*WIDTH by 2*HEIGHT, stored row by row
ImageSize == (2 * Width) * (2 * Height)

mmio_color_to_rgb(x) ==
    [r |-> (x % 8) * 32, g |-> ((x \div 8) % 8) * 32, b |-> (x \div 64) * 64]

\* the bug of reading the framebuffer that is not selected
FrameStartSwapped(frame) == IF frame = 0 THEN FRAME_1 ELSE FRAME_0

\* let start = if frame == 0 { FRAME_0 } else { FRAME_1 }
FrameStart(frame) == IF frame = 0 THEN FRAME_0 ELSE FRAME_1

\* the packed colours of the frames the engine draws, one colour per frame
Palette == <<7, 56, 192>>

RenderInit ==
    /\ input = <<>> /\ labels = EmptyTrie /\ directive = "Text"
    /\ code = <<>> /\ data = <<>> /\ ret = Running
    /\ prog = <<>> /\ pc = 0 /\ regs = [r \in Registers |-> 0]
    /\ halted = FALSE /\ fault = FALSE
    /\ mmio = [a \in MmioAddrs |-> 0]
    /\ lock = "free"
    /\ rpc = "idle" /\ rframe = 0 /\ rnext = 0
    /\ image = [i \in 0..(ImageSize - 1) |-> mmio_color_to_rgb(0)]
    /\ ecolor = 1 /\ enext = 0

\* mmio.lock().unwrap(); let frame = mmio[FRAME_SELECT]
RenderBegin ==
    /\ rpc = "idle"
    /\ lock = "free"
    /\ lock' = "render"
    /\ rframe' = mmio[FRAME_SELECT]
    /\ rnext' = 0
    /\ rpc' = "copy"
    /\ UNCHANGED <<mmio, image, ecolor, enext>>
    /\ UNCHANGED <<parserVars, execVars>>

\* one iteration of the pixel loop: *pixel = mmio_color_to_rgb(mmio[index])
RenderPixel ==
    /\ rpc = "copy"
    /\ rnext < ImageSize
    /\ LET y     == (rnext \div (2 * Width)) \div 2
           x     == (rnext % (2 * Width)) \div 2
           index == FrameStart(rframe) + y * Width + x
       IN  image' = [image EXCEPT ![rnext] = mmio_color_to_rgb(mmio[index])]
    /\ rnext' = rnext + 1
    /\ UNCHANGED <<mmio, lock, rpc, rframe, ecolor, enext>>
    /\ UNCHANGED <<parserVars, execVars>>

\* the closure returns: the MutexGuard is dropped
RenderEnd ==
    /\ rpc = "copy"
    /\ rnext = ImageSize
    /\ lock' = "free"
    /\ rpc' = "idle"
    /\ UNCHANGED <<mmio, rframe, rnext, image, ecolor, enext>>
    /\ UNCHANGED <<parserVars, execVars>>

\* the engine stores one pixel of the frame it is drawing, under the lock,
\* into the framebuffer that is not selected
EngineWrite ==
    /\ lock = "free"
    /\ enext < FrameSize
    /\ LET back == IF mmio[FRAME_SELECT] = 0 THEN FRAME_1 ELSE FRAME_0
       IN  mmio' = [mmio EXCEPT ![back + enext] = Palette[ecolor]]
    /\ enext' = enext + 1
    /\ UNCHANGED <<lock, rpc, rframe, rnext, image, ecolor>>
    /\ UNCHANGED <<parserVars, execVars>>

\* the frame is complete: the engine flips the frame-select byte, under the
\* lock, and starts the next frame
EngineFlip ==
    /\ lock = "free"
    /\ enext = FrameSize
    /\ \E v \in {1, 255} :
          mmio' = [mmio EXCEPT ![FRAME_SELECT] = IF mmio[FRAME_SELECT] = 0 THEN v ELSE 0]
    /\ enext' = 0
    /\ ecolor' = (ecolor % Len(Palette)) + 1
    /\ UNCHANGED <<lock, rpc, rframe, rnext, image>>
    /\ UNCHANGED <<parserVars, execVars>>

RenderNext ==
    \/ RenderBegin
    \/ RenderPixel
    \/ RenderEnd
    \/ EngineWrite
    \/ EngineFlip

RenderSpec == RenderInit /\ [][RenderNext]_vars

\* the bytes of the framebuffer starting at `start`
FrameBytes(start) == {mmio[start + k] : k \in 0..(FrameSize - 1)}

\* C9: the callback holds the lock from its read of the frame-select byte to
\* its last pixel, reads framebuffer 0 when that byte is 0 and framebuffer 1
\* otherwise, and no rendered frame mixes pixels of two frames: the buffer
\* it reads is never one the engine has partly written.
C9_NoPartialFrame ==
    /\ rpc = "copy" =>
          /\ lock = "render"
          /\ rframe = mmio[FRAME_SELECT]
          /\ Cardinality(FrameBytes(IF rframe = 0 THEN FRAME_0 ELSE FRAME_1)) = 1
          /\ \A i \in 0..(rnext - 1) :
                LET y == (i \div (2 * Width)) \div 2
                    x == (i % (2 * Width)) \div 2
                IN  image[i] = mmio_color_to_rgb(
                        mmio[(IF rframe = 0 THEN FRAME_0 ELSE FRAME_1) + y * Width + x])
    /\ rpc = "idle" =>
          \A i, j \in 0..(ImageSize - 1) : image[i] = image[j]

\* a frame rendered from framebuffer 1 while the engine has partly written
\* framebuffer 0
C9_Witness ==
    /\ rpc = "idle"
    /\ rframe = 255
    /\ image[0] = mmio_color_to_rgb(Palette[3])
    /\ Cardinality(FrameBytes(FRAME_0)) = 2

=============================================================================
